---- MODULE Spec2Model ----
(***************************************************************************)
(* Model of the witchcraft-rust-server core: the startup sequence of       *)
(* init/init_inner, the endpoint registry of Witchcraft, the serial accept *)
(* loop of server::start with its connection-metrics layer, and the        *)
(* signal-driven shutdown coordinator of lib.rs (Spec); the services       *)
(* server::start composes from layers and the calls through them           *)
(* (SpecService); the blocking pool (SpecPool, SpecPoolFair) and the       *)
(* idle-connection layer (SpecIdle).                                       *)
(***************************************************************************)
EXTENDS Integers, Sequences, FiniteSets, TLC

\* ------------------------------------------------------------------ bounds
\* install config: server.max-connections
MaxConnections == 2
\* shutdown hooks the logging subsystem may register
MaxLoggerHooks == 1
\* shutdown hooks the server may register
MaxServerHooks == 1
\* registration calls the user init callback makes
MaxRegistrations == 1
\* layers added to one ServiceBuilder
MaxLayers == 3
\* requests one connection carries
MaxRequests == 2
\* install config: the size of the blocking pool
PoolSize == 2
\* units submitted beyond the size of the pool
MaxWaiting == 1
\* install config: server.idle-connection-timeout, in ticks
IdleTimeout == 2
\* connections under the idle layer
MaxStreams == 3
\* registration calls made on one Witchcraft, taken by themselves
MaxCalls == 3

\* connection slots: the admitted connections plus the one the acceptor holds
Slots == 1..(MaxConnections + 1)
LoggerHookIds == 1..MaxLoggerHooks
ServerHookIds == 1..MaxServerHooks
Workers == 1..PoolSize
Units == 1..(PoolSize + MaxWaiting)
Streams == 1..MaxStreams

VARIABLES
    pc,                 \* position of the main thread in init/init_inner/shutdown
    failedStep,         \* the startup step whose `?` returned Err ("none" if none)
    runtime,            \* the Tokio runtime: "unbuilt", "running", "shutdown"
    exitStatus,         \* -1 while the process lives, else its exit status
    logs,               \* messages init and shutdown have logged so far
    printed,            \* init printed the startup error to stderr
    endpoints,          \* Witchcraft.endpoints
    thread_pool,        \* Witchcraft.thread_pool: NoPool for None, else the pool
    context_path,       \* install_config.context_path()
    loggerHook,         \* logger_shutdown_hooks: hook id -> state
    serverHook,         \* server_shutdown_hooks: hook id -> state
    pending_signal,     \* the signal the `signals` stream holds and has not yielded yet
    deadline,           \* the shutdown timeout, counted from the select!:
                        \* "unset", "pending", "passed"
    acc_pc,             \* position of the accept loop task
    conn,               \* slot -> state of the connection in it
    active_connections, \* the counter server.connection.active
    last_end,           \* how the most recently released connection ended
                        \* ("error logged": debug!("http connection terminated"))
    builder,            \* ServiceBuilder: the layers added so far, in order
    service,            \* the composed service being called: its layers from
                        \* the outermost in, the terminal service last
    stage,              \* which service of server::start is being called
    depth,              \* the member of `service` the call is in
    phase,              \* "in": call() going inward, "out": the futures
                        \* resolving outward, "serving": HyperService reading
    call_trace,         \* what the layers and terminal services did, in order
    requests,           \* requests HyperService has dispatched
    queue,              \* the blocking pool's shared work queue
    worker,             \* pool worker -> the unit it runs (0: none, -1: dead)
    unit,               \* submitted unit -> "new", "queued", "running", or
                        \* what its caller was handed: "ok", "internal error"
    will_panic,         \* unit -> the handler it runs panics
    stream_state,       \* connection under the idle layer -> its state
    idle_timer,         \* connection -> the idle layer's timer
    since_io,           \* connection -> time since its last read or write
    last_io             \* connection -> kind of its last read or write

vars == <<pc, failedStep, runtime, exitStatus, logs, printed, endpoints,
          thread_pool, context_path, loggerHook, serverHook, pending_signal, deadline,
          acc_pc, conn,
          active_connections, last_end,
          builder, service, stage, depth, phase, call_trace, requests,
          queue, worker, unit, will_panic,
          stream_state, idle_timer, since_io, last_io>>

startupVars == <<pc, failedStep, runtime, exitStatus, logs, printed>>
registryVars == <<endpoints, thread_pool>>
hookVars == <<loggerHook, serverHook, deadline>>
connVars == <<acc_pc, conn, active_connections, last_end>>
installVars == <<context_path>>
serverVars == <<startupVars, registryVars, hookVars, pending_signal, connVars, installVars>>
serviceVars == <<builder, service, stage, depth, phase, call_trace, requests>>
poolVars == <<queue, worker, unit, will_panic>>
idleVars == <<stream_state, idle_timer, since_io, last_io>>
sideVars == <<serviceVars, poolVars, idleVars, installVars>>

\* ------------------------------------------------------------ the registry
\* Option<&str>: None is the empty tuple, Some(s) the tuple of s
None == <<>>
Some(s) == <<s>>
UnwrapOr(option, default) == IF option = None THEN default ELSE option[1]

\* Option<Arc<ThreadPool>>: None, or the pool, named by a positive number
NoPool == 0

\* the context paths an install configuration is loaded with
ContextPaths == {"/", "", "/ctx"}

\* ConjureEndpoint::new and ConjureBlockingEndpoint::new: an endpoint, the pool
\* it runs its handler on, and the path prefixes it is wrapped in, outermost
\* first
AsyncEndpoint == [blocking |-> FALSE, pool |-> NoPool, wrapped |-> <<>>]
BlockingEndpoint(pool) == [blocking |-> TRUE, pool |-> pool, wrapped |-> <<>>]

\* ExtendedPathEndpoint::new(endpoint, prefix)
ExtendedPathEndpoint(endpoint, prefix) ==
    [endpoint EXCEPT !.wrapped = <<prefix>> \o @]

\* the context path as extend_path reads it
RootAsEmpty_Kept(path) == path
RootAsEmpty(path) == IF path = "/" THEN "" ELSE path

\* extend_path
extend_path(endpoint, path, prefix) ==
    LET full == RootAsEmpty(path) \o UnwrapOr(prefix, "")
    IN  IF full = "" THEN endpoint ELSE ExtendedPathEndpoint(endpoint, full)

\* ThreadPool::new: a pool that no earlier call has created
NewThreadPool == Len(endpoints) + 1

\* Option::get_or_insert_with
GetOrInsertWith_Replaces(option, value) == value
GetOrInsertWith(option, value) == IF option = NoPool THEN value ELSE option

\* the only place user code holds &mut Witchcraft: the init callback
CanRegister_Late == pc \in {"init_callback", "wait_signal"}
CanRegister == pc = "init_callback"

RegistrationsLeft == Len(endpoints) < 1 + MaxRegistrations

\* Witchcraft::endpoints
Endpoints(prefix) ==
    /\ endpoints' = Append(endpoints, extend_path(AsyncEndpoint, context_path, prefix))
    /\ UNCHANGED thread_pool

\* Witchcraft::blocking_endpoints: get_or_insert_with the pool, then extend
BlockingEndpoints(prefix) ==
    /\ thread_pool' = GetOrInsertWith(thread_pool, NewThreadPool)
    /\ endpoints' = Append(endpoints,
                           extend_path(BlockingEndpoint(thread_pool'), context_path, prefix))

App ==
    /\ CanRegister /\ RegistrationsLeft
    /\ Endpoints(None)
    /\ UNCHANGED <<sideVars, pending_signal, startupVars, hookVars, connVars>>

Api ==
    /\ CanRegister /\ RegistrationsLeft
    /\ Endpoints(Some("/api"))
    /\ UNCHANGED <<sideVars, pending_signal, startupVars, hookVars, connVars>>

BlockingApp ==
    /\ CanRegister /\ RegistrationsLeft
    /\ BlockingEndpoints(None)
    /\ UNCHANGED <<sideVars, pending_signal, startupVars, hookVars, connVars>>

BlockingApi ==
    /\ CanRegister /\ RegistrationsLeft
    /\ BlockingEndpoints(Some("/api"))
    /\ UNCHANGED <<sideVars, pending_signal, startupVars, hookVars, connVars>>

\* one registration call, of any of the four kinds
CallKinds == {"app", "api", "blocking_app", "blocking_api"}

Call(kind) ==
    /\ CanRegister
    /\ Len(endpoints) < 1 + MaxCalls
    /\ CASE kind = "app" -> Endpoints(None)
         [] kind = "api" -> Endpoints(Some("/api"))
         [] kind = "blocking_app" -> BlockingEndpoints(None)
         [] kind = "blocking_api" -> BlockingEndpoints(Some("/api"))
    /\ UNCHANGED <<sideVars, pending_signal, startupVars, hookVars, connVars>>

\* ------------------------------------------------------------- the startup
Init ==
    /\ pc = "load_install"
    /\ failedStep = "none"
    /\ runtime = "unbuilt"
    /\ exitStatus = -1
    /\ logs = {}
    /\ printed = FALSE
    /\ endpoints = <<>>
    /\ thread_pool = NoPool
    /\ context_path = "/"
    /\ loggerHook = [h \in LoggerHookIds |-> "unregistered"]
    /\ serverHook = [h \in ServerHookIds |-> "unregistered"]
    /\ pending_signal = "none"
    /\ deadline = "unset"
    /\ acc_pc = "unspawned"
    /\ conn = [c \in Slots |-> "free"]
    /\ active_connections = 0
    /\ last_end = "none"
    /\ builder = <<>>
    /\ service = <<>>
    /\ stage = "idle"
    /\ depth = 0
    /\ phase = "none"
    /\ call_trace = <<>>
    /\ requests = 0
    /\ queue = <<>>
    /\ worker = [w \in Workers |-> 0]
    /\ unit = [u \in Units |-> "new"]
    /\ will_panic = [u \in Units |-> FALSE]
    /\ stream_state = [c \in Streams |-> "unopened"]
    /\ idle_timer = [c \in Streams |-> 0]
    /\ since_io = [c \in Streams |-> 0]
    /\ last_io = [c \in Streams |-> "none"]

\* the steps of init_inner that end in `?`
FallibleSteps == {"load_install", "build_runtime", "load_runtime",
                  "logging_init", "init_callback", "server_start", "signals"}

\* ShutdownHooks::push for the first n hooks of a set
RegisterHooks(hooks, n) ==
    [h \in DOMAIN hooks |-> IF h <= n THEN "registered" ELSE hooks[h]]

\* polling a ShutdownHooks future starts every hook it holds
StartHooks(hooks) ==
    [h \in DOMAIN hooks |-> IF hooks[h] = "registered" THEN "running" ELSE hooks[h]]

\* dropping a ShutdownHooks future abandons the hooks that have not finished
DropHooks(hooks) ==
    [h \in DOMAIN hooks |-> IF hooks[h] = "running" THEN "abandoned" ELSE hooks[h]]

AllDone(hooks) == \A h \in DOMAIN hooks : hooks[h] \in {"unregistered", "done"}

LoadInstall ==
    /\ pc = "load_install"
    /\ pc' = "build_runtime"
    /\ UNCHANGED <<sideVars, pending_signal, failedStep, runtime, exitStatus, logs, printed,
                   registryVars, hookVars, connVars>>

\* configs::load_install of a configuration with the context path `path`
LoadInstallAt(path) ==
    /\ pc = "load_install"
    /\ context_path' = path
    /\ pc' = "build_runtime"
    /\ UNCHANGED <<serviceVars, poolVars, idleVars, pending_signal, failedStep, runtime,
                   exitStatus, logs, printed, registryVars, hookVars, connVars>>

BuildRuntime ==
    /\ pc = "build_runtime"
    /\ runtime' = "running"
    /\ pc' = "load_runtime"
    /\ UNCHANGED <<sideVars, pending_signal, failedStep, exitStatus, logs, printed,
                   registryVars, hookVars, connVars>>

LoadRuntime ==
    /\ pc = "load_runtime"
    /\ pc' = "logging_init"
    /\ UNCHANGED <<sideVars, pending_signal, failedStep, runtime, exitStatus, logs, printed,
                   registryVars, hookVars, connVars>>

\* logging::init registers the loggers' shutdown hooks; then "server starting",
\* and the status endpoints are installed
LoggingInit ==
    /\ pc = "logging_init"
    /\ \E n \in 0..MaxLoggerHooks : loggerHook' = RegisterHooks(loggerHook, n)
    /\ logs' = logs \cup {"server starting"}
    /\ Endpoints(None)
    /\ pc' = "init_callback"
    /\ UNCHANGED <<sideVars, pending_signal, failedStep, runtime, exitStatus, printed,
                   serverHook, deadline, connVars>>

\* the user init callback returns Ok
InitCallbackReturns ==
    /\ pc = "init_callback"
    /\ pc' = "server_start"
    /\ UNCHANGED <<sideVars, pending_signal, failedStep, runtime, exitStatus, logs, printed,
                   registryVars, hookVars, connVars>>

\* server::start: the layers are built (TlsLayer::new and AcceptService::new
\* may fail before anything runs), the accept loop is spawned as a detached
\* task; init_inner hands start the server_shutdown_hooks set to register in
ServerStart ==
    /\ pc = "server_start"
    /\ \E n \in 0..MaxServerHooks : serverHook' = RegisterHooks(serverHook, n)
    /\ acc_pc' = "accepting"
    /\ pc' = "signals"
    /\ UNCHANGED <<sideVars, pending_signal, failedStep, runtime, exitStatus, logs, printed,
                   registryVars, loggerHook, deadline, conn,
                   active_connections, last_end>>

\* shutdown: signals() registers the two signal streams
Signals ==
    /\ pc = "signals"
    /\ pc' = "wait_signal"
    /\ UNCHANGED <<sideVars, pending_signal, failedStep, runtime, exitStatus, logs, printed,
                   registryVars, hookVars, connVars>>

\* a `?` of init_inner returns Err
StartupFail ==
    /\ pc \in FallibleSteps
    /\ failedStep' = pc
    /\ pc' = "init_err"
    /\ UNCHANGED <<sideVars, pending_signal, runtime, exitStatus, logs, printed,
                   registryVars, hookVars, connVars>>

\* init_inner returns: its locals are dropped, QuickDropRuntime among them
DropRuntime(r) == IF r = "running" THEN "shutdown" ELSE r

\* the runtime's shutdown drops the accept loop task where it is suspended; a
\* task never spawned or already finished has nothing to drop
StopTask(at) == IF at \in {"unspawned", "failed"} THEN at ELSE "stopped"

ReturnErr ==
    /\ pc = "init_err"
    /\ runtime' = DropRuntime(runtime)
    /\ acc_pc' = StopTask(acc_pc)
    /\ pc' = "returned_err"
    /\ UNCHANGED <<sideVars, pending_signal, failedStep, exitStatus, logs, printed, registryVars,
                   hookVars, conn, active_connections, last_end>>

\* init: fatal!, eprintln!, process::exit(1)
InitReportAndExit ==
    /\ pc = "returned_err"
    /\ logs' = logs \cup {"error starting server"}
    /\ printed' = TRUE
    /\ exitStatus' = 1
    /\ pc' = "exited"
    /\ UNCHANGED <<sideVars, pending_signal, failedStep, runtime, registryVars, hookVars, connVars>>

\* ------------------------------------------------------ the shutdown phase
\* signals(): stream::select of the SignalKind::interrupt() stream and the
\* SignalKind::terminate() stream; an item of either is the unit value
SignalKinds == {"SIGINT", "SIGTERM"}

\* the process is sent a signal of a kind one of the two streams listens for
\* while shutdown() polls `signals`
SignalArrives(kind) ==
    /\ pc \in {"wait_signal", "draining"}
    /\ pending_signal = "none"
    /\ pending_signal' = kind
    /\ UNCHANGED <<sideVars, startupVars, registryVars, hookVars, connVars>>

\* shutdown() that does not wait for signals.next() before it drains
FirstSignal_Unprompted ==
    /\ pc = "wait_signal"
    /\ pending_signal' = "none"
    /\ logs' = logs \cup {"server shutting down"}
    /\ serverHook' = StartHooks(serverHook)
    /\ deadline' = "pending"
    /\ pc' = "draining"
    /\ UNCHANGED <<sideVars, failedStep, runtime, exitStatus, printed, registryVars,
                   loggerHook, connVars>>

\* signals.next() yields the first signal; select! polls the server hooks
FirstSignal_Joined ==
    /\ pc = "wait_signal"
    /\ pending_signal \in SignalKinds
    /\ pending_signal' = "none"
    /\ logs' = logs \cup {"server shutting down"}
    /\ serverHook' = StartHooks(serverHook)
    /\ loggerHook' = StartHooks(loggerHook)
    /\ deadline' = "pending"
    /\ pc' = "draining"
    /\ UNCHANGED <<sideVars, failedStep, runtime, exitStatus, printed, registryVars,
                   connVars>>

FirstSignal ==
    /\ pc = "wait_signal"
    /\ pending_signal \in SignalKinds
    /\ pending_signal' = "none"
    /\ logs' = logs \cup {"server shutting down"}
    /\ serverHook' = StartHooks(serverHook)
    /\ deadline' = "pending"
    /\ pc' = "draining"
    /\ UNCHANGED <<sideVars, failedStep, runtime, exitStatus, printed, registryVars,
                   loggerHook, connVars>>

\* a server shutdown hook runs to its end while the select! polls it
ServerHookCompletes(h) ==
    /\ pc = "draining"
    /\ serverHook[h] = "running"
    /\ serverHook' = [serverHook EXCEPT ![h] = "done"]
    /\ UNCHANGED <<sideVars, pending_signal, startupVars, registryVars, loggerHook, deadline, connVars>>

\* the select! is left: its server hooks future is dropped, and
\* logger_shutdown_hooks.await polls the logging hooks; with none of them
\* pending the await is ready at once and shutdown returns Ok(()). `signals`
\* is not polled again: a signal it still holds is never read
AfterSelect(hooks) == IF AllDone(hooks) THEN "terminated" ELSE "logging"

LeaveSelect_KeepsHooks(message) ==
    /\ pending_signal' = "none"
    /\ logs' = logs \cup message
    /\ loggerHook' = StartHooks(loggerHook)
    /\ pc' = AfterSelect(loggerHook')
    /\ UNCHANGED <<sideVars, failedStep, runtime, exitStatus, printed, registryVars,
                   serverHook, deadline, connVars>>

LeaveSelect_SkipsLoggers(message) ==
    /\ pending_signal' = "none"
    /\ logs' = logs \cup message
    /\ serverHook' = DropHooks(serverHook)
    /\ pc' = "terminated"
    /\ UNCHANGED <<sideVars, failedStep, runtime, exitStatus, printed, registryVars,
                   loggerHook, deadline, connVars>>

LeaveSelect(message) ==
    /\ pending_signal' = "none"
    /\ logs' = logs \cup message
    /\ serverHook' = DropHooks(serverHook)
    /\ loggerHook' = StartHooks(loggerHook)
    /\ pc' = AfterSelect(loggerHook')
    /\ UNCHANGED <<sideVars, failedStep, runtime, exitStatus, printed, registryVars,
                   deadline, connVars>>

\* select! branch: server_shutdown_hooks is ready
DrainHooksDone ==
    /\ pc = "draining"
    /\ AllDone(serverHook)
    /\ LeaveSelect({})

\* select! branch: signals.next() yields a second signal
DrainSecondSignal ==
    /\ pc = "draining"
    /\ pending_signal \in SignalKinds
    /\ LeaveSelect({"graceful shutdown interrupted by signal"})

\* select! branch: time::sleep(timeout) has elapsed
DrainTimeout ==
    /\ pc = "draining"
    /\ deadline = "passed"
    /\ LeaveSelect({"graceful shutdown timed out"})

\* a logging shutdown hook runs to its end while line 255 awaits it
LoggerHookCompletes(h) ==
    /\ pc = "logging"
    /\ loggerHook[h] = "running"
    /\ loggerHook' = [loggerHook EXCEPT ![h] = "done"]
    /\ UNCHANGED <<sideVars, pending_signal, startupVars, registryVars, serverHook, deadline, connVars>>

\* the process is sent a signal while line 255 awaits the logging hooks:
\* `signals` is not polled there, the stream holds the signal unread
SignalUnread(kind) ==
    /\ pc = "logging"
    /\ pending_signal = "none"
    /\ pending_signal' = kind
    /\ UNCHANGED <<sideVars, startupVars, registryVars, hookVars, connVars>>

\* an await of the logging hooks that a signal or the drain timeout ends
ShutdownReturns_Interrupted ==
    /\ pc = "logging"
    /\ AllDone(loggerHook) \/ pending_signal \in SignalKinds \/ deadline = "passed"
    /\ pc' = "terminated"
    /\ UNCHANGED <<sideVars, pending_signal, failedStep, runtime, exitStatus, logs, printed,
                   registryVars, hookVars, connVars>>

\* logger_shutdown_hooks.await is ready: shutdown returns Ok(())
ShutdownReturns ==
    /\ pc = "logging"
    /\ AllDone(loggerHook)
    /\ pc' = "terminated"
    /\ UNCHANGED <<sideVars, pending_signal, failedStep, runtime, exitStatus, logs, printed,
                   registryVars, hookVars, connVars>>

\* init_inner returns Ok(()): its locals are dropped, the runtime among them
ReturnOk ==
    /\ pc = "terminated"
    /\ runtime' = DropRuntime(runtime)
    /\ acc_pc' = StopTask(acc_pc)
    /\ pc' = "returned_ok"
    /\ UNCHANGED <<sideVars, pending_signal, failedStep, exitStatus, logs, printed, registryVars,
                   hookVars, conn, active_connections, last_end>>

\* init returns to main, which returns
ProcessEnd ==
    /\ pc = "returned_ok"
    /\ exitStatus' = 0
    /\ pc' = "exited"
    /\ UNCHANGED <<sideVars, pending_signal, failedStep, runtime, logs, printed, registryVars,
                   hookVars, connVars>>

\* the configured timeout passes, counted from time::sleep(timeout) at line 245
TimeoutPasses ==
    /\ pc \in {"draining", "logging"}
    /\ deadline = "pending"
    /\ deadline' = "passed"
    /\ UNCHANGED <<sideVars, pending_signal, startupVars, registryVars, loggerHook, serverHook, connVars>>

\* --------------------------------------------------------- the accept loop
Alive == exitStatus = -1

\* Counter::inc in ConnectionMetricsFuture::poll, once the inner future is ready
PollReadyCount_Double(n) == n + 2
PollReadyCount(n) == n + 1

\* Counter::dec in the PinnedDrop of ConnectionMetricsStream
DropCount_Leak(n) == n
DropCount(n) == n - 1

LowestFree == CHOOSE c \in Slots : conn[c] = "free" /\ \A d \in Slots : conn[d] = "free" => c <= d
Held == CHOOSE c \in Slots : conn[c] = "accepted"

\* the connections being handled by their own tasks
ActiveCount == Cardinality({c \in Slots : conn[c] = "handling"})

\* ConnectionLimitLayer: the concurrent connections are at or over the maximum
AtLimit == ActiveCount >= MaxConnections

\* the ConnectionMetricsStream in slot c is dropped
ReleaseStream(c, how) ==
    /\ conn' = [conn EXCEPT ![c] = "free"]
    /\ active_connections' = DropCount(active_connections)
    /\ last_end' = how

\* an accept call that is made while the socket of the previous one has not
\* been handed to its task
AcceptReady_Overlaps ==
    /\ Alive /\ runtime = "running"
    /\ acc_pc \in {"accepting", "spawn"}
    /\ \E c \in Slots : conn[c] = "free"
    /\ conn' = [conn EXCEPT ![LowestFree] = "accepted"]
    /\ active_connections' = PollReadyCount(active_connections)
    /\ acc_pc' = "limit"
    /\ UNCHANGED <<sideVars, pending_signal, startupVars, registryVars, hookVars, last_end>>

\* accept_service.call(()): the inner accept future of ConnectionMetricsFuture
\* becomes ready and the counter is incremented
AcceptReady ==
    /\ Alive /\ runtime = "running"
    /\ acc_pc = "accepting"
    /\ \E c \in Slots : conn[c] = "free"
    /\ conn' = [conn EXCEPT ![LowestFree] = "accepted"]
    /\ active_connections' = PollReadyCount(active_connections)
    /\ acc_pc' = "limit"
    /\ UNCHANGED <<sideVars, pending_signal, startupVars, registryVars, hookVars, last_end>>

\* AcceptService: the listening socket fails; the failure is reported and the
\* sequence of connections ends instead of being retried
ListenerFails ==
    /\ Alive /\ runtime = "running"
    /\ acc_pc = "accepting"
    /\ acc_pc' = "failed"
    /\ logs' = logs \cup {"listener failed"}
    /\ UNCHANGED <<sideVars, pending_signal, pc, failedStep, runtime, exitStatus, printed,
                   registryVars, hookVars, conn, active_connections, last_end>>

\* a connection-handling error that ends the accept loop
HandleErr_StopsLoop(c) ==
    /\ Alive /\ runtime = "running"
    /\ conn[c] = "handling"
    /\ ReleaseStream(c, "error logged")
    /\ acc_pc' = "failed"
    /\ UNCHANGED <<sideVars, pending_signal, startupVars, registryVars, hookVars>>

\* the limit layer wraps the metrics layer, which wraps the acceptor: at or
\* over the maximum it closes the connection it was handed and goes on
\* accepting
LimitReject ==
    /\ Alive /\ runtime = "running"
    /\ acc_pc = "limit"
    /\ AtLimit
    /\ ReleaseStream(Held, "rejected")
    /\ acc_pc' = "accepting"
    /\ UNCHANGED <<sideVars, pending_signal, startupVars, registryVars, hookVars>>

\* the limit layer, under the maximum, passes the connection on
LimitAdmit ==
    /\ Alive /\ runtime = "running"
    /\ acc_pc = "limit"
    /\ ~AtLimit
    /\ acc_pc' = "spawn"
    /\ UNCHANGED <<sideVars, pending_signal, startupVars, registryVars, hookVars, conn,
                   active_connections, last_end>>

\* task::spawn of the connection's handling; the loop calls accept again
SpawnHandler_Awaits ==
    /\ Alive /\ runtime = "running"
    /\ acc_pc = "spawn"
    /\ ActiveCount = 0
    /\ conn' = [conn EXCEPT ![Held] = "handling"]
    /\ acc_pc' = "accepting"
    /\ UNCHANGED <<sideVars, pending_signal, startupVars, registryVars, hookVars,
                   active_connections, last_end>>

SpawnHandler ==
    /\ Alive /\ runtime = "running"
    /\ acc_pc = "spawn"
    /\ conn' = [conn EXCEPT ![Held] = "handling"]
    /\ acc_pc' = "accepting"
    /\ UNCHANGED <<sideVars, pending_signal, startupVars, registryVars, hookVars,
                   active_connections, last_end>>

\* handle_service.call(socket) returns Ok: the task ends, the stream is dropped
HandleOk(c) ==
    /\ Alive /\ runtime = "running"
    /\ conn[c] = "handling"
    /\ ReleaseStream(c, "ok")
    /\ UNCHANGED <<sideVars, pending_signal, startupVars, registryVars, hookVars, acc_pc>>

\* handle_service.call(socket) returns Err: debug!, the task ends
HandleErr_Exits(c) ==
    /\ Alive /\ runtime = "running"
    /\ conn[c] = "handling"
    /\ ReleaseStream(c, "error logged")
    /\ exitStatus' = 1
    /\ pc' = "exited"
    /\ UNCHANGED <<sideVars, pending_signal, failedStep, runtime, logs, printed, registryVars, hookVars,
                   acc_pc>>

HandleErr(c) ==
    /\ Alive /\ runtime = "running"
    /\ conn[c] = "handling"
    /\ ReleaseStream(c, "error logged")
    /\ UNCHANGED <<sideVars, pending_signal, startupVars, registryVars, hookVars, acc_pc>>

\* the runtime was shut down: a task is dropped with the stream it owns
CancelTask(c) ==
    /\ Alive /\ runtime = "shutdown"
    /\ conn[c] \in {"accepted", "handling"}
    /\ ReleaseStream(c, "cancelled")
    /\ UNCHANGED <<sideVars, pending_signal, startupVars, registryVars, hookVars, acc_pc>>

\* ------------------------------------------------------- the specification
AcceptorStep == AcceptReady \/ LimitReject \/ LimitAdmit \/ SpawnHandler

Next ==
    \/ LoadInstall
    \/ BuildRuntime
    \/ LoadRuntime
    \/ LoggingInit
    \/ App
    \/ Api
    \/ BlockingApp
    \/ BlockingApi
    \/ InitCallbackReturns
    \/ ServerStart
    \/ Signals
    \/ StartupFail
    \/ ReturnErr
    \/ InitReportAndExit
    \/ \E kind \in SignalKinds : SignalArrives(kind)
    \/ FirstSignal
    \/ \E h \in ServerHookIds : ServerHookCompletes(h)
    \/ DrainHooksDone
    \/ DrainSecondSignal
    \/ DrainTimeout
    \/ \E h \in LoggerHookIds : LoggerHookCompletes(h)
    \/ ShutdownReturns
    \/ ReturnOk
    \/ ProcessEnd
    \/ TimeoutPasses
    \/ AcceptReady
    \/ ListenerFails
    \/ LimitReject
    \/ LimitAdmit
    \/ SpawnHandler
    \/ \E c \in Slots : HandleOk(c)
    \/ \E c \in Slots : HandleErr(c)
    \/ \E c \in Slots : CancelTask(c)

Spec == Init /\ [][Next]_vars

\* The coordinator alone, init_inner and shutdown(), with the signals that can
\* reach the process at any point of shutdown(). The accept loop and the
\* connection tasks are left to Spec: they read and write connVars only, which
\* no step of the coordinator reads.
NextShutdown ==
    \/ LoadInstall
    \/ BuildRuntime
    \/ LoadRuntime
    \/ LoggingInit
    \/ InitCallbackReturns
    \/ ServerStart
    \/ Signals
    \/ StartupFail
    \/ ReturnErr
    \/ InitReportAndExit
    \/ \E kind \in SignalKinds : SignalArrives(kind)
    \/ \E kind \in SignalKinds : SignalUnread(kind)
    \/ FirstSignal
    \/ \E h \in ServerHookIds : ServerHookCompletes(h)
    \/ DrainHooksDone
    \/ DrainSecondSignal
    \/ DrainTimeout
    \/ \E h \in LoggerHookIds : LoggerHookCompletes(h)
    \/ ShutdownReturns
    \/ ReturnOk
    \/ ProcessEnd
    \/ TimeoutPasses

SpecShutdown == Init /\ [][NextShutdown]_vars

\* The registry alone: the configuration is loaded with any context path and
\* the init callback makes up to MaxCalls registration calls of any kinds.
NextRegistry ==
    \/ \E path \in ContextPaths : LoadInstallAt(path)
    \/ BuildRuntime
    \/ LoadRuntime
    \/ LoggingInit
    \/ \E kind \in CallKinds : Call(kind)

SpecRegistry == Init /\ [][NextRegistry]_vars

\* ---------------------------------------------- services and their layers
\* A composed service is written as the chain of its members, the outermost
\* layer first and the terminal service last.

\* the layers a builder may be given
SomeLayers == {"a", "b", "c"}

\* Layer::layer: the layer's service keeps the service it wraps as `inner`
Wrap(layer, inner) == <<layer>> \o inner

\* ServiceBuilder::layer: the new layer is stacked inside those added before
BuilderLayer(layers, layer) == Append(layers, layer)

\* ServiceBuilder::service: the stack of layers is applied to the terminal
\* service, the layer added last first
RECURSIVE StackLayer(_, _)
StackLayer(layers, inner) ==
    IF layers = <<>> THEN inner
    ELSE StackLayer(SubSeq(layers, 1, Len(layers) - 1),
                    Wrap(layers[Len(layers)], inner))

\* server::start: the three services it assembles
RequestLayers == <<"Routing", "RequestId", "TracePropagation", "Spans">>
request_service == StackLayer(RequestLayers, <<"HandlerService">>)
HandleLayers_NoIdle == <<"Tls", "TlsMetrics">>
HandleLayers == <<"Tls", "TlsMetrics", "IdleConnection">>
handle_service == StackLayer(HandleLayers, <<"HyperService">>)
AcceptLayers == <<"ConnectionLimit", "ConnectionMetrics">>
accept_service == StackLayer(AcceptLayers, <<"AcceptService">>)

Did(what) == call_trace' = Append(call_trace, <<service[depth], what>>)

\* Service::call of a layer's service: self.inner.call(req)
CallInner_Skips(at) == at + 2
CallInner(at) == at + 1

\* Future::poll of a layer's future: ready!(inner.poll(cx)), then its own part
InnerReady(at) == at - 1

AddLayer(layer) ==
    /\ stage = "idle"
    /\ Len(builder) < MaxLayers
    /\ builder' = BuilderLayer(builder, layer)
    /\ UNCHANGED <<serverVars, poolVars, idleVars, service, stage, depth, phase, call_trace, requests>>

\* .service(T) on the builder, and a call of the service it returns
ServiceCall ==
    /\ stage = "idle"
    /\ service' = StackLayer(builder, <<"T">>)
    /\ stage' = "generic"
    /\ depth' = 1
    /\ phase' = "in"
    /\ UNCHANGED <<serverVars, poolVars, idleVars, builder, call_trace, requests>>

\* the accept loop: accept_service.call(())
AcceptCall ==
    /\ stage = "idle"
    /\ builder = <<>>
    /\ service' = accept_service
    /\ stage' = "accept"
    /\ depth' = 1
    /\ phase' = "in"
    /\ UNCHANGED <<serverVars, poolVars, idleVars, builder, call_trace, requests>>

\* a layer's call() hands the request to the service it wraps
Descend ==
    /\ phase = "in"
    /\ depth < Len(service)
    /\ Did("in")
    /\ depth' = CallInner(depth)
    /\ UNCHANGED <<serverVars, poolVars, idleVars, builder, service, stage, phase, requests>>

\* a layer ends the call itself (a failed handshake, a timeout, an error
\* response): the service it wraps is not called
Refuse ==
    /\ phase = "in"
    /\ stage \in {"generic", "handle", "request"}
    /\ depth < Len(service)
    /\ Did("refuse")
    /\ phase' = "out"
    /\ depth' = InnerReady(depth)
    /\ UNCHANGED <<serverVars, poolVars, idleVars, builder, service, stage, requests>>

\* the terminal service is called; HyperService goes on to read requests
Serve ==
    /\ phase = "in"
    /\ depth = Len(service)
    /\ Did("call")
    /\ IF stage = "handle"
          THEN phase' = "serving" /\ depth' = depth
          ELSE phase' = "out" /\ depth' = InnerReady(depth)
    /\ UNCHANGED <<serverVars, poolVars, idleVars, builder, service, stage, requests>>

\* a layer's future sees its inner future ready and does its own part
Ascend ==
    /\ phase = "out"
    /\ depth >= 1
    /\ ~(stage = "accept" /\ service[depth] = "ConnectionLimit")
    /\ Did("out")
    /\ depth' = InnerReady(depth)
    /\ UNCHANGED <<serverVars, poolVars, idleVars, builder, service, stage, phase, requests>>

\* ConnectionLimitLayer is handed the accepted connection and passes it on
LimitPasses ==
    /\ phase = "out"
    /\ stage = "accept"
    /\ depth >= 1
    /\ service[depth] = "ConnectionLimit"
    /\ Did("out")
    /\ depth' = InnerReady(depth)
    /\ UNCHANGED <<serverVars, poolVars, idleVars, builder, service, stage, phase, requests>>

\* ConnectionLimitLayer is handed the accepted connection and closes it
LimitCloses ==
    /\ phase = "out"
    /\ stage = "accept"
    /\ depth >= 1
    /\ service[depth] = "ConnectionLimit"
    /\ Did("reject")
    /\ stage' = "closed"
    /\ depth' = 0
    /\ UNCHANGED <<serverVars, poolVars, idleVars, builder, service, phase, requests>>

\* the accept loop: task::spawn of handle_service.call(socket)
HandOver ==
    /\ stage = "accept"
    /\ phase = "out"
    /\ depth = 0
    /\ service' = handle_service
    /\ stage' = "handle"
    /\ depth' = 1
    /\ phase' = "in"
    /\ UNCHANGED <<serverVars, poolVars, idleVars, builder, call_trace, requests>>

\* HyperService read a request: request_service.call(request)
Dispatch ==
    /\ stage = "handle"
    /\ phase = "serving"
    /\ requests < MaxRequests
    /\ requests' = requests + 1
    /\ service' = request_service
    /\ stage' = "request"
    /\ depth' = 1
    /\ phase' = "in"
    /\ UNCHANGED <<serverVars, poolVars, idleVars, builder, call_trace>>

\* the response of a request is written; HyperService reads on
Responded ==
    /\ stage = "request"
    /\ phase = "out"
    /\ depth = 0
    /\ service' = handle_service
    /\ stage' = "handle"
    /\ depth' = Len(handle_service)
    /\ phase' = "serving"
    /\ UNCHANGED <<serverVars, poolVars, idleVars, builder, call_trace, requests>>

\* the connection ends: the future of HyperService is ready
ConnectionEnds ==
    /\ stage = "handle"
    /\ phase = "serving"
    /\ phase' = "out"
    /\ depth' = InnerReady(depth)
    /\ UNCHANGED <<serverVars, poolVars, idleVars, builder, service, stage, call_trace, requests>>

NextService ==
    \/ \E layer \in SomeLayers : AddLayer(layer)
    \/ ServiceCall
    \/ AcceptCall
    \/ Descend
    \/ Refuse
    \/ Serve
    \/ Ascend
    \/ LimitPasses
    \/ LimitCloses
    \/ HandOver
    \/ Dispatch
    \/ Responded
    \/ ConnectionEnds

SpecService == Init /\ [][NextService]_vars

\* ------------------------------------------------------ the blocking pool
\* ThreadPool: a fixed set of workers that take units from one shared queue;
\* the caller of a unit waits for what the unit returns.

\* the handler of a blocking endpoint is submitted for a request; the
\* submitting task awaits its result
Submit_Rejects(panics) ==
    /\ \E u \in Units :
          /\ unit[u] = "new"
          /\ \A v \in Units : v < u => unit[v] # "new"
          /\ will_panic' = [will_panic EXCEPT ![u] = panics]
          /\ IF \A w \in Workers : worker[w] # 0
                THEN /\ unit' = [unit EXCEPT ![u] = "internal error"]
                     /\ queue' = queue
                ELSE /\ unit' = [unit EXCEPT ![u] = "queued"]
                     /\ queue' = Append(queue, u)
    /\ UNCHANGED <<serverVars, serviceVars, idleVars, worker>>

Submit(panics) ==
    /\ \E u \in Units :
          /\ unit[u] = "new"
          /\ \A v \in Units : v < u => unit[v] # "new"
          /\ will_panic' = [will_panic EXCEPT ![u] = panics]
          /\ unit' = [unit EXCEPT ![u] = "queued"]
          /\ queue' = Append(queue, u)
    /\ UNCHANGED <<serverVars, serviceVars, idleVars, worker>>

\* a worker is between two units
FreeWorker_Any(w) == TRUE
FreeWorker(w) == worker[w] = 0

\* a free worker (the first of them) takes the unit at the head of the queue
Take(w) ==
    /\ FreeWorker(w)
    /\ \A v \in Workers : v < w => ~FreeWorker(v)
    /\ queue # <<>>
    /\ worker' = [worker EXCEPT ![w] = Head(queue)]
    /\ unit' = [unit EXCEPT ![Head(queue)] = "running"]
    /\ queue' = Tail(queue)
    /\ UNCHANGED <<serverVars, serviceVars, idleVars, will_panic>>

\* what the caller of a unit is handed: a panic is caught at the pool boundary
Outcome(u) == IF will_panic[u] THEN "internal error" ELSE "ok"

\* the worker after a unit: it goes back to the queue
AfterUnit_Dies(u) == IF will_panic[u] THEN -1 ELSE 0
AfterUnit(u) == 0

\* the unit a worker runs returns or panics
Finish(w) ==
    /\ worker[w] \in Units
    /\ unit[worker[w]] = "running"
    /\ unit' = [unit EXCEPT ![worker[w]] = Outcome(worker[w])]
    /\ worker' = [worker EXCEPT ![w] = AfterUnit(worker[w])]
    /\ UNCHANGED <<serverVars, serviceVars, idleVars, queue, will_panic>>

NextPool ==
    \/ \E panics \in BOOLEAN : Submit(panics)
    \/ \E w \in Workers : Take(w)
    \/ \E w \in Workers : Finish(w)

SpecPool == Init /\ [][NextPool]_vars

\* the workers are threads of their own, and a unit that runs ends
SpecPoolFair ==
    /\ Init /\ [][NextPool]_vars
    /\ WF_vars(\E w \in Workers : Take(w))
    /\ WF_vars(\E w \in Workers : Finish(w))

\* ------------------------------------------------- the idle-timeout layer
\* IdleConnectionLayer: the stream it wraps restarts a timer at every read
\* and write; the connection is closed when the timer reaches the timeout.

\* a connection is passed through the layer
OpenStream(c) ==
    /\ stream_state[c] = "unopened"
    /\ \A d \in Streams : d < c => stream_state[d] # "unopened"
    /\ stream_state' = [stream_state EXCEPT ![c] = "open"]
    /\ UNCHANGED <<serverVars, serviceVars, poolVars, idle_timer, since_io, last_io>>

\* the timer of a connection has reached the timeout
Expired(c) == idle_timer[c] >= IdleTimeout

\* a read or write on the stream restarts the timer
ResetTimer_Keeps(t) == t
ResetTimer(t) == 0

\* time passes; a timer that has expired fires before more time passes
Tick ==
    /\ \E c \in Streams : stream_state[c] = "open"
    /\ \A c \in Streams : stream_state[c] = "open" => ~Expired(c)
    /\ idle_timer' = [c \in Streams |->
                        IF stream_state[c] = "open" THEN idle_timer[c] + 1
                                                    ELSE idle_timer[c]]
    /\ since_io' = [c \in Streams |->
                        IF stream_state[c] = "open" THEN since_io[c] + 1
                                                    ELSE since_io[c]]
    /\ UNCHANGED <<serverVars, serviceVars, poolVars, stream_state, last_io>>

\* poll_read or poll_write of the stream
Activity(c, kind) ==
    /\ stream_state[c] = "open"
    /\ idle_timer' = [idle_timer EXCEPT ![c] = ResetTimer(idle_timer[c])]
    /\ since_io' = [since_io EXCEPT ![c] = 0]
    /\ last_io' = [last_io EXCEPT ![c] = kind]
    /\ UNCHANGED <<serverVars, serviceVars, poolVars, stream_state>>

\* the timer fires: the connection is closed
IdleClose(c) ==
    /\ stream_state[c] = "open"
    /\ Expired(c)
    /\ stream_state' = [stream_state EXCEPT ![c] = "closed by idle"]
    /\ UNCHANGED <<serverVars, serviceVars, poolVars, idle_timer, since_io, last_io>>

\* the connection ends for another reason
StreamEnds(c) ==
    /\ stream_state[c] = "open"
    /\ stream_state' = [stream_state EXCEPT ![c] = "closed"]
    /\ UNCHANGED <<serverVars, serviceVars, poolVars, idle_timer, since_io, last_io>>

NextIdle ==
    \/ \E c \in Streams : OpenStream(c)
    \/ Tick
    \/ \E c \in Streams : \E kind \in {"read", "write"} : Activity(c, kind)
    \/ \E c \in Streams : IdleClose(c)
    \/ \E c \in Streams : StreamEnds(c)

SpecIdle == Init /\ [][NextIdle]_vars

\* ------------------------------------------------------------- the claims
AllReleased == \A c \in Slots : conn[c] = "free"
NoNewAccept == \A c \in Slots : conn[c] = "free" => conn'[c] = "free"
NoHookRunning ==
    /\ \A h \in LoggerHookIds : loggerHook[h] # "running"
    /\ \A h \in ServerHookIds : serverHook[h] # "running"

\* C1: once the stream of every accepted connection has been released, however
\* the connections ended (Ok, error, rejection, cancellation of the task), the
\* active-connection counter is back at the value it had before the first
\* accept, which is 0.
C1_CounterBalance == AllReleased => active_connections = 0

\* C1 witness: connections were accepted, the last of them ended by the
\* cancellation of its task, and all streams are released.
C1_Witness ==
    /\ AllReleased
    /\ last_end = "cancelled"
    /\ acc_pc = "stopped"
    /\ active_connections = 0

\* C2: when the concurrently active connections are at or over max_connections,
\* the connection the limit layer is about to reject was never counted: the
\* active-connection counter equals the number of active connections.
C2_RejectedNotCounted ==
    (acc_pc = "limit" /\ AtLimit) => active_connections = ActiveCount

C4_BoundedShutdown ==
    (deadline = "passed" /\ pc # "draining") => NoHookRunning

\* C5: once the first signal has been received no accept completes.
C5_NoAcceptAfterSignal ==
    [][(pc \in {"draining", "logging", "terminated"}) => NoNewAccept]_vars

\* C6: while the runtime runs, the accept loop always has a step it can take,
\* however many earlier connections are still being handled: it is never
\* blocked on the handling of a connection.
C6_AcceptorNeverWaits ==
    (Alive /\ runtime = "running" /\ acc_pc \in {"accepting", "limit", "spawn"})
        => ENABLED AcceptorStep

\* C6 witness: an accept has completed while max_connections earlier
\* connections are still being handled by their tasks.
C6_Witness ==
    /\ Alive /\ runtime = "running"
    /\ acc_pc = "limit"
    /\ ActiveCount = MaxConnections

\* C7: a step in which the handling of connection c ends with an error logs
\* it and changes nothing else: the other connections, the accept loop, the
\* main thread, the runtime and the exit status of the process stay as they
\* were.
C7_ErrorIsolated ==
    [][\A c \in Slots :
          (conn[c] = "handling" /\ conn'[c] = "free" /\ last_end' = "error logged")
              => /\ \A d \in Slots \ {c} : conn'[d] = conn[d]
                 /\ acc_pc' = acc_pc
                 /\ pc' = pc
                 /\ runtime' = runtime
                 /\ exitStatus' = exitStatus]_vars

\* C7 witness: a connection has just ended with a logged error while another
\* one is being handled, the accept loop runs and the process lives.
C7_Witness ==
    /\ last_end = "error logged"
    /\ \E d \in Slots : conn[d] = "handling"
    /\ acc_pc = "accepting"
    /\ Alive /\ runtime = "running"

\* C8: a logging shutdown hook has started only if the server-hook phase has
\* ended: the coordinator has left the select! and no server hook is running.
C8_LoggingAfterDrain ==
    (\E h \in LoggerHookIds : loggerHook[h] \in {"running", "done"})
        => /\ pc \in {"logging", "terminated", "returned_ok", "exited"}
           /\ \A h \in ServerHookIds : serverHook[h] # "running"

\* C8 witness: the drain timed out with a server hook unfinished, and a
\* logging hook is now running.
C8_Witness ==
    /\ "graceful shutdown timed out" \in logs
    /\ \E h \in ServerHookIds : serverHook[h] = "abandoned"
    /\ \E h \in LoggerHookIds : loggerHook[h] = "running"

\* C9: once the accept loop has been spawned the endpoint registry (and the
\* thread pool it shares) is never written again.
C9_RegistryFrozen ==
    [][(acc_pc # "unspawned")
          => (endpoints' = endpoints /\ thread_pool' = thread_pool)]_vars

\* C9 witness: the init callback registered an endpoint besides the status
\* endpoints, and a connection has been accepted and is being handled.
C9_Witness ==
    /\ Len(endpoints) > 1
    /\ \E c \in Slots : conn[c] = "handling"

\* C10: after a startup step has failed no connection is accepted.
C10_NoAcceptAfterFailure ==
    [][(failedStep # "none") => NoNewAccept]_vars

\* the hooks pushed to a ShutdownHooks set so far
Registered(hooks) == {h \in DOMAIN hooks : hooks[h] # "unregistered"}

\* C11: once init_inner has handed the two hook sets to shutdown() no hook is
\* added to either set, and every hook registered before is awaited: the
\* select! polls every registered server hook, and on leaving it
\* logger_shutdown_hooks.await polls every registered logging hook.
C11_HooksFixed ==
    [][/\ (pc \in {"signals", "wait_signal", "draining", "logging", "terminated"})
            => /\ Registered(loggerHook') = Registered(loggerHook)
               /\ Registered(serverHook') = Registered(serverHook)
       /\ (pc' \in {"draining", "logging", "terminated"})
            => \A h \in ServerHookIds : serverHook'[h] # "registered"
       /\ (pc' \in {"logging", "terminated"})
            => \A h \in LoggerHookIds : loggerHook'[h] # "registered"]_vars

\* C11 witness: hooks of both sets were registered at startup; the server
\* hooks have been awaited and a logging hook is being awaited.
C11_Witness ==
    /\ pc = "logging"
    /\ \E h \in ServerHookIds : serverHook[h] \in {"done", "abandoned"}
    /\ \A h \in LoggerHookIds : loggerHook[h] = "running"

\* C19: the active-connection counter equals the number of accepted
\* connections whose ConnectionMetricsStream has not been dropped: nothing is
\* counted while the accept is pending or when the accept future is dropped
\* unfinished, one is added when the accept completes, one is taken off at
\* the drop.
LiveStreams == {c \in Slots : conn[c] \in {"accepted", "handling"}}

C19_CounterIsLiveStreams == active_connections = Cardinality(LiveStreams)

\* C19 witness: the accept loop was dropped with the runtime, one task was
\* cancelled and its stream dropped, another stream is still live.
C19_Witness ==
    /\ acc_pc = "stopped"
    /\ last_end = "cancelled"
    /\ Cardinality(LiveStreams) = 1
    /\ active_connections = 1


\* C18: the accept loop leaves its cycle (accepting, limit, spawn) only by a
\* listener failure, which is reported and adds no connection, or by the
\* shutdown of the runtime; a spawned connection is followed by the next accept,
\* a connection-handling error leaves the loop where it is, and a failed
\* listener is not retried.
LoopCycle == {"accepting", "limit", "spawn"}
C18_LoopEndsOnlyByFailureOrShutdown ==
    [][/\ (acc_pc \in LoopCycle /\ acc_pc' \notin LoopCycle)
            => \/ /\ acc_pc = "accepting" /\ acc_pc' = "failed"
                  /\ "listener failed" \in logs'
                  /\ conn' = conn
               \/ acc_pc' = "stopped" /\ runtime' = "shutdown"
       /\ (acc_pc = "spawn" /\ acc_pc' \in LoopCycle) => acc_pc' \in {"spawn", "accepting"}
       /\ (last_end' = "error logged" /\ last_end # "error logged") => acc_pc' = acc_pc
       /\ (acc_pc = "failed") => acc_pc' = "failed"]_vars

\* C18 witness: the loop went on after a connection ended in an error, the
\* listener then failed and was reported, and a connection accepted before
\* the failure is still being handled.
C18_Witness ==
    /\ acc_pc = "failed"
    /\ "listener failed" \in logs
    /\ last_end = "error logged"
    /\ \E c \in Slots : conn[c] = "handling"

\* C20: the coordinator leaves Running (wait_signal) only by taking a signal of
\* either kind from the stream, and goes to the drain; before that no hook of
\* either set has started; while draining a second signal of either kind can
\* arrive whatever the first was, and once it has the drain can be cut short.
HooksUnstarted ==
    /\ \A h \in LoggerHookIds : loggerHook[h] \in {"unregistered", "registered"}
    /\ \A h \in ServerHookIds : serverHook[h] \in {"unregistered", "registered"}
BeforeFirstSignal == {"load_install", "build_runtime", "load_runtime", "logging_init",
                      "init_callback", "server_start", "signals", "wait_signal"}
C20_SignalLeavesRunning ==
    [][/\ (pc = "wait_signal" /\ pc' # "wait_signal")
            => (pending_signal \in SignalKinds /\ pc' = "draining")
       /\ (pc \in BeforeFirstSignal) => HooksUnstarted
       /\ (pc = "draining" /\ pending_signal = "none")
            => \A kind \in SignalKinds : ENABLED SignalArrives(kind)
       /\ (pc = "draining" /\ pending_signal \in SignalKinds)
            => ENABLED DrainSecondSignal]_vars

\* C20 witness: the first signal was taken, the server hooks run, and a second
\* signal, a SIGTERM, has arrived.
C20_Witness ==
    /\ pc = "draining"
    /\ pending_signal = "SIGTERM"
    /\ \E h \in ServerHookIds : serverHook[h] = "running"


\* C12: when a call of the service built from the layers L1..Ln (in the order
\* they were added) around the terminal service T is over, what ran is L1..Lj-1
\* on the way in, in this order, then either T (all n layers forwarded) or the
\* layer Lj that ended the call itself, then Lj-1..L1 on the way out: a layer
\* runs only if every layer outside it forwarded, and the first runs last on
\* the way out.
Inward(k) == [i \in 1..k |-> <<builder[i], "in">>]
Outward(k) == [i \in 1..k |-> <<builder[k + 1 - i], "out">>]
Turn(j) == IF j = Len(builder) + 1 THEN <<"T", "call">> ELSE <<builder[j], "refuse">>
C12_OnionOrder ==
    (stage = "generic" /\ phase = "out" /\ depth = 0)
        => \E j \in 1..(Len(builder) + 1) :
              call_trace = Inward(j - 1) \o <<Turn(j)>> \o Outward(j - 1)

\* C12 witness: a call through three different layers that all forwarded is
\* over.
C12_Witness ==
    /\ stage = "generic" /\ phase = "out" /\ depth = 0
    /\ builder = <<"a", "b", "c">>
    /\ Len(call_trace) = 7

\* C13: whenever HyperService is called for a connection, the connection was
\* accepted, then passed the limit layer, then TLS, then the idle-timeout
\* layer, in this order; whenever HandlerService is called for a request, the
\* four per-request layers ran just before it, in their order, and HTTP
\* handling of the connection had begun; no per-request layer runs before.
At(i, member, what) == i \in 1..Len(call_trace) /\ call_trace[i] = <<member, what>>
PerRequest == {"Routing", "RequestId", "TracePropagation", "Spans", "HandlerService"}
C13_StageOrder ==
    \A i \in 1..Len(call_trace) :
        /\ At(i, "HyperService", "call")
             => \E a, l, t, d \in 1..i :
                   /\ a < l /\ l < t /\ t < d /\ d < i
                   /\ At(a, "AcceptService", "call")
                   /\ At(l, "ConnectionLimit", "out")
                   /\ At(t, "Tls", "in")
                   /\ At(d, "IdleConnection", "in")
        /\ At(i, "HandlerService", "call")
             => /\ At(i - 4, "Routing", "in")
                /\ At(i - 3, "RequestId", "in")
                /\ At(i - 2, "TracePropagation", "in")
                /\ At(i - 1, "Spans", "in")
        /\ (call_trace[i][1] \in PerRequest)
             => \E h \in 1..i : h < i /\ At(h, "HyperService", "call")

\* C13 witness: a connection that carried two requests, both dispatched to the
\* handler, has ended.
C13_Witness ==
    /\ stage = "handle" /\ phase = "out" /\ depth = 0
    /\ Cardinality({i \in 1..Len(call_trace) : At(i, "HandlerService", "call")}) = 2


\* C14: a unit submitted while every worker is busy is put in the queue: it is
\* not handed an error it did not raise itself; and every queued unit is
\* eventually run and its own result handed to its caller (workers take units
\* whenever they are free, and running units end).
Delivered(u) == unit[u] \in {"ok", "internal error"}
C14_ExcessWaitsThenRuns ==
    /\ [](\A u \in Units :
             /\ unit[u] = "queued" <=> \E i \in 1..Len(queue) : queue[i] = u
             /\ Delivered(u) => unit[u] = Outcome(u))
    /\ \A u \in Units : (unit[u] = "queued") ~> Delivered(u)

\* C14 witness: both workers run a unit and the unit submitted after them
\* waits in the queue.
C14_Witness ==
    /\ \A w \in Workers : worker[w] \in Units
    /\ queue = <<PoolSize + 1>>

\* C15: an internal error is handed to the caller of a unit only if that very
\* unit panicked, and a unit that did not panic is handed its result; no
\* worker is lost to a panic; the unit a worker holds is running, whatever
\* became of the other units.
C15_PanicIsolated ==
    /\ \A u \in Units : unit[u] = "internal error" => will_panic[u]
    /\ \A u \in Units : unit[u] = "ok" => ~will_panic[u]
    /\ \A w \in Workers : worker[w] # -1
    /\ \A w \in Workers : worker[w] \in Units => unit[worker[w]] = "running"

\* C15 witness: unit 1 panicked on worker 1 and its caller has the internal
\* error; unit 2, which ran beside it, still runs, and worker 1 now runs unit
\* 3, which did not panic.
C15_Witness ==
    /\ unit[1] = "internal error"
    /\ worker[1] = 3 /\ ~will_panic[3]
    /\ worker[2] = 2 /\ ~will_panic[2]

\* C16: the units running at the same time are never more than the pool has
\* workers.
Running == {u \in Units : unit[u] = "running"}
C16_PoolBound == Cardinality(Running) <= PoolSize

\* C16 witness: every unit was submitted, more than the pool has workers; one
\* is over and as many as there are workers run.
C16_Witness ==
    /\ \A u \in Units : unit[u] # "new"
    /\ \E u \in Units : Delivered(u)
    /\ Cardinality(Running) = PoolSize

\* C17: a connection that is open has had a read or write within the timeout,
\* so one without activity for longer is closed; and a connection the idle
\* layer closed had no read or write for the whole timeout, so one with
\* activity strictly within every window is never closed by it.
C17_IdleTimeout ==
    \A c \in Streams :
        /\ stream_state[c] = "open" => since_io[c] <= IdleTimeout
        /\ stream_state[c] = "closed by idle" => since_io[c] >= IdleTimeout

\* C17 witness: a connection that had been written to was closed by the idle
\* layer after the timeout, while another that was read from in time is open.
C17_Witness ==
    \E c, d \in Streams :
        /\ stream_state[c] = "closed by idle" /\ last_io[c] = "write"
        /\ stream_state[d] = "open" /\ last_io[d] = "read"
        /\ since_io[d] < IdleTimeout

\* C21: accepting is serial. The accept loop holds at most one accepted
\* socket; while an accept call waits for a connection no socket is held; a
\* socket is only accepted by the one call in flight; and the next call is
\* made by the step that hands the socket of the previous call to a spawned
\* task.
InHand == {c \in Slots : conn[c] = "accepted"}
C21_SerialAccept ==
    [][/\ Cardinality(InHand) <= 1
       /\ (acc_pc = "accepting") => InHand = {}
       /\ (InHand' \ InHand # {}) => (acc_pc = "accepting" /\ acc_pc' = "limit")
       /\ (acc_pc = "spawn" /\ acc_pc' = "accepting")
            => (InHand = {Held} /\ conn'[Held] = "handling" /\ InHand' = {})]_vars

\* C21 witness: the loop is in its second accept call, with the socket of the
\* call in hand, while the connection of the first call is handled by its task.
C21_Witness ==
    /\ acc_pc = "limit"
    /\ Cardinality(InHand) = 1
    /\ ActiveCount >= 1

\* C22: the active-connection counter is never above max_connections, so the
\* utilization gauge, counter / max_connections, is never above 1.
C22_CounterWithinMax == active_connections <= MaxConnections

\* C23: shutdown() returns only after the logging shutdown hooks have
\* completed. Whichever branch of the select! ends the drain (the server hooks
\* finished, a second signal, the timeout), every registered logging hook is
\* started; while they are awaited neither a signal nor the passed deadline
\* ends the await or abandons a hook; shutdown returns with all of them done.
C23_LoggersAwaited ==
    [][/\ (pc = "draining" /\ pc' # "draining")
            => /\ pc' \in {"logging", "terminated"}
               /\ \A h \in LoggerHookIds :
                    loggerHook[h] = "registered" => loggerHook'[h] = "running"
       /\ (pc = "logging" /\ pc' # "logging")
            => (pc' = "terminated" /\ AllDone(loggerHook))
       /\ (pc = "logging")
            => \A h \in LoggerHookIds : loggerHook'[h] \notin {"registered", "abandoned"}
       /\ (pc' = "terminated")
            => \A h \in LoggerHookIds : loggerHook'[h] \in {"unregistered", "done"}]_vars

\* C23 witness: the drain was ended by a second signal; the deadline passed
\* and one more signal arrived while the logging hooks were awaited; shutdown
\* has returned and the logging hooks are done.
C23_Witness ==
    /\ pc = "terminated"
    /\ "graceful shutdown interrupted by signal" \in logs
    /\ deadline = "passed"
    /\ pending_signal \in SignalKinds
    /\ \E h \in LoggerHookIds : loggerHook[h] = "done"

\* C24: at most one blocking ThreadPool exists per server. Every blocking
\* endpoint holds the pool of Witchcraft.thread_pool, which is the pool
\* created at the call that registered the first blocking endpoint; async
\* endpoints hold none, and with only async registrations no pool exists.
BlockingAt == {i \in 1..Len(endpoints) : endpoints[i].blocking}
PoolsInUse == {endpoints[i].pool : i \in 1..Len(endpoints)} \cup {thread_pool}
C24_OnePool ==
    /\ Cardinality(PoolsInUse \ {NoPool}) <= 1
    /\ \A i \in 1..Len(endpoints) :
         IF endpoints[i].blocking
         THEN endpoints[i].pool = thread_pool /\ thread_pool # NoPool
         ELSE endpoints[i].pool = NoPool
    /\ (BlockingAt = {}) <=> (thread_pool = NoPool)
    /\ \A i \in BlockingAt : (\A j \in BlockingAt : i <= j) => thread_pool = i

\* C24 witness: an async registration, then a blocking one that created the
\* pool, then another blocking one that shares it.
C24_Witness ==
    /\ Len(endpoints) = 4
    /\ ~endpoints[2].blocking
    /\ endpoints[3].blocking /\ endpoints[4].blocking
    /\ endpoints[4].pool = endpoints[3].pool
    /\ thread_pool = 3

\* C25: a registration call adds its endpoint under the context path, "/"
\* read as empty, followed by "/api" for api and blocking_api and by nothing
\* for app and blocking_app: unchanged when that is empty, else wrapped once,
\* in exactly that prefix.
ServedUnder(kind) ==
    (IF context_path = "/" THEN "" ELSE context_path)
        \o (IF kind \in {"api", "blocking_api"} THEN "/api" ELSE "")
C25_PathExtension ==
    [][\A kind \in CallKinds :
         Call(kind) =>
            LET added == endpoints'[Len(endpoints')]
            IN  /\ Len(endpoints') = Len(endpoints) + 1
                /\ added.blocking = (kind \in {"blocking_app", "blocking_api"})
                /\ added.wrapped = IF ServedUnder(kind) = "" THEN <<>>
                                   ELSE <<ServedUnder(kind)>>]_vars

\* C25 witness: under the context path "/" an app endpoint is registered
\* unchanged, an api endpoint under "/api" alone, and so is a blocking_api one.
C25_Witness ==
    /\ context_path = "/"
    /\ Len(endpoints) = 4
    /\ endpoints[2] = AsyncEndpoint
    /\ endpoints[3].wrapped = <<"/api">> /\ ~endpoints[3].blocking
    /\ endpoints[4].wrapped = <<"/api">> /\ endpoints[4].blocking

====
